---- MODULE Spec2Model ----
(***************************************************************************)
(* Model of the ZINova dashboard (src/app.py): the Streamlit script that   *)
(* keeps a selected zone, a selected spill, a chat transcript and a        *)
(* cleanup status per spill in st.session_state.                           *)
(*                                                                         *)
(* Streamlit runs the script top to bottom after each user interaction;    *)
(* st.rerun() abandons the run and starts the script again.  pc is the     *)
(* position of the current run: "wait" is the quiescent state in which the *)
(* page is rendered and the next interaction is awaited, the other values  *)
(* are the handlers of the script in source order.                         *)
(*                                                                         *)
(* Coordinates are exact multiples of 0.005 degree (40.20 N is 8040), and  *)
(* distances are compared by their squares, so that the comparisons of the *)
(* click handler are computed without rounding.  The source computes in    *)
(* binary floating point on the doubles nearest to these decimals.         *)
(***************************************************************************)
EXTENDS Integers, Sequences, FiniteSets, TLC

VARIABLES
    selected_zone_id,     \* st.session_state.selected_zone_id
    selected_spill_id,    \* st.session_state.selected_spill_id
    chat_messages,        \* st.session_state.chat_messages
    cleanup_status,       \* st.session_state.cleanup_status
    client,               \* the module-level OpenAI client, None without a key
    pc,                   \* position of the script run
    zone_select,          \* the sidebar selectbox: the user's pick, or NoPick
    last_object_clicked,  \* the map component's last_object_clicked: {} for
                          \* None, else the set of the one clicked point
    button_clicked,       \* the cleanup button was pressed for this run
    user_query,           \* the chat input submitted for this run
    spill_select,         \* the spill selectbox changed for this run:
                          \* <<widget, spill id>>, or <<>> when untouched
    ev                    \* history: what the last step did, and from where

vars == <<selected_zone_id, selected_spill_id, chat_messages, cleanup_status,
          client, pc, zone_select, last_object_clicked, button_clicked,
          user_query, spill_select, ev>>

session == <<selected_zone_id, selected_spill_id, chat_messages, cleanup_status>>

\* Python's None, and a selectbox the user has not touched.
None == "<None>"
NoPick == "<NoPick>"

\* Longest transcript the model lets the user build, in chat turns.
MaxTurns == 2

----------------------------------------------------------------------------
\* Static data

\* DANGER_ZONES["zones"], in list order; lat and lon in units of 0.005 degree.
DANGER_ZONES ==
    << [zone_id |-> "Z1", lat |-> 8040, lon |-> 9960],
       [zone_id |-> "Z2", lat |-> 8010, lon |-> 9980],
       [zone_id |-> "Z3", lat |-> 7980, lon |-> 10000] >>

ZoneIds == {DANGER_ZONES[i].zone_id : i \in 1..Len(DANGER_ZONES)}

\* get_spill_geojson(zone_id).get("features", []) reduced to the spill ids,
\* in feature order; an unknown zone has no features.
get_spill_geojson(zone_id) ==
    CASE zone_id = "Z1" -> <<"S1">>
      [] zone_id = "Z2" -> <<"S2">>
      [] zone_id = "Z3" -> <<"S3">>
      [] OTHER -> <<>>

Range(s) == {s[i] : i \in 1..Len(s)}

AllSpillIds == UNION {Range(get_spill_geojson(z)) : z \in ZoneIds}

\* The loops of init_cleanup_status() from zone i on: status[sid] = "idle"
\* for each feature of each zone.
RECURSIVE InitStatusFrom(_, _)
InitStatusFrom(i, status) ==
    IF i > Len(DANGER_ZONES) THEN status
    ELSE LET features == get_spill_geojson(DANGER_ZONES[i].zone_id)
         IN  InitStatusFrom(i + 1,
                 [sid \in DOMAIN status \cup Range(features) |-> "idle"])

\* Variant of init_cleanup_status(): only the first zone's spills get an entry.
init_cleanup_status_FirstZone ==
    [sid \in Range(get_spill_geojson(DANGER_ZONES[1].zone_id)) |-> "idle"]

\* init_cleanup_status(): "idle" for every spill of every zone.
init_cleanup_status ==
    InitStatusFrom(1, <<>>)

\* cleanup_status.get(sid, "idle")
StatusGet(status, sid) ==
    IF sid \in DOMAIN status THEN status[sid] ELSE "idle"

----------------------------------------------------------------------------
\* Context of the assistant (lines 162-184 and 640-646)

\* HISTORY_DATA: per zone the events in list order; a date "YYYY-MM-DD" is
\* the number YYYYMMDD, whose order is the order of the date strings; an
\* area is in tenths of km2, the precision the summary prints (:.1f).
HISTORY_DATA ==
    [zone_id \in {"Z1", "Z2", "Z3"} |->
        CASE zone_id = "Z1" ->
                << [date |-> 20230510, area_km2 |-> 18, spill_id |-> "H1"],
                   [date |-> 20230821, area_km2 |-> 22, spill_id |-> "H2"],
                   [date |-> 20240103, area_km2 |-> 11, spill_id |-> "H3"] >>
          [] zone_id = "Z2" ->
                << [date |-> 20221102, area_km2 |-> 30, spill_id |-> "H4"] >>
          [] zone_id = "Z3" ->
                << [date |-> 20230215, area_km2 |-> 9, spill_id |-> "H5"],
                   [date |-> 20230910, area_km2 |-> 12, spill_id |-> "H6"] >>]

\* HISTORY_DATA.get(zone_id, [])
HistoryGet(zone_id) ==
    IF zone_id \in DOMAIN HISTORY_DATA THEN HISTORY_DATA[zone_id] ELSE <<>>

\* sum(e["area_km2"] for e in events), from position i on.
RECURSIVE SumArea(_, _)
SumArea(events, i) ==
    IF i > Len(events) THEN 0
    ELSE events[i].area_km2 + SumArea(events, i + 1)

\* max(e["area_km2"] for e in events): the scan from position i on, best
\* being the largest area seen so far.
RECURSIVE MaxArea(_, _, _)
MaxArea(events, i, best) ==
    IF i > Len(events) THEN best
    ELSE MaxArea(events, i + 1,
                 IF events[i].area_km2 > best THEN events[i].area_km2 ELSE best)

\* max(events, key=lambda e: e["date"]): the scan from position i on; the
\* first of several events with the greatest date is kept.
RECURSIVE LatestFrom(_, _, _)
LatestFrom(events, i, best) ==
    IF i > Len(events) THEN best
    ELSE LatestFrom(events, i + 1,
                    IF events[i].date > best.date THEN events[i] ELSE best)

\* Variant of the choice of the most recent event: the largest one is taken.
Latest_ByArea(events) ==
    CHOOSE e \in Range(events) : \A f \in Range(events) : f.area_km2 <= e.area_km2

\* latest: the event with the greatest date.
Latest(events) ==
    LatestFrom(events, 2, events[1])

NoHistorySentence == "No historical spills recorded for this zone."
HistorySentence ==
    "This zone has {n} historical spills, total affected area ~{total} km2. Largest historical spill ~{max} km2. Most recent spill on {date} with area ~{area} km2."

\* get_history_summary: the sentence and the values filled into it, in the
\* order in which the sentence names them.
get_history_summary(zone_id) ==
    LET events == HistoryGet(zone_id)
    IN  IF events = <<>>
        THEN [sentence |-> NoHistorySentence, values |-> <<>>]
        ELSE [sentence |-> HistorySentence,
              values |-> << Len(events),
                            SumArea(events, 1),
                            MaxArea(events, 2, events[1].area_km2),
                            Latest(events).date,
                            Latest(events).area_km2 >>]

\* get_zone_meta: the first zone with the id; None is the record of no zone.
get_zone_meta(zone_id) ==
    IF \E i \in 1..Len(DANGER_ZONES) : DANGER_ZONES[i].zone_id = zone_id
    THEN DANGER_ZONES[CHOOSE i \in 1..Len(DANGER_ZONES) :
                        /\ DANGER_ZONES[i].zone_id = zone_id
                        /\ \A j \in 1..(i - 1) : DANGER_ZONES[j].zone_id # zone_id]
    ELSE [zone_id |-> None, lat |-> 0, lon |-> 0]

\* Variant of the context: the history of the first zone is always used.
BuildContext_FirstZoneHistory(zone_id, spill_id) ==
    [zone_meta |-> get_zone_meta(zone_id),
     spill_props |-> spill_id,
     history_text |-> get_history_summary(DANGER_ZONES[1].zone_id)]

\* Lines 640-646: sel_feature (the feature of the selected spill, reduced
\* to its id), zone_meta and history_text, the arguments of get_ai_response.
BuildContext(zone_id, spill_id) ==
    [zone_meta |-> get_zone_meta(zone_id),
     spill_props |-> CHOOSE sid \in Range(get_spill_geojson(zone_id)) : sid = spill_id,
     history_text |-> get_history_summary(zone_id)]

----------------------------------------------------------------------------
\* Sidebar: the zone selectbox (lines 326-352)

\* zone_options = ["None"] + [zone ids]
zone_options ==
    <<"None">> \o [i \in 1..Len(DANGER_ZONES) |-> DANGER_ZONES[i].zone_id]

\* idx: 0 for no selection, else i + 1 for the i-th zone (0-based i); as a
\* 1-based position in zone_options.
ZoneIndex(zone_id) ==
    IF zone_id = None THEN 1
    ELSE IF \E i \in 1..Len(DANGER_ZONES) : DANGER_ZONES[i].zone_id = zone_id
         THEN 1 + CHOOSE i \in 1..Len(DANGER_ZONES) : DANGER_ZONES[i].zone_id = zone_id
         ELSE 1

\* What st.selectbox returns: the user's pick, or options[index] untouched.
selected_zone_option ==
    IF zone_select # NoPick THEN zone_select
    ELSE zone_options[ZoneIndex(selected_zone_id)]

\* new_zone_id: None for the option "None", else the zone id of the option.
NewZoneId(option) ==
    IF option # "None" THEN option ELSE None

\* The handler acts only when the dropdown's value differs from the selection.
SidebarChanged(new_zone_id, current) ==
    new_zone_id # current

\* Variants of the dropdown handler's assignments: the transcript is not
\* cleared; the spill selection is not reset.
SidebarAssign_KeepChat(new_zone_id) ==
    [zone |-> new_zone_id, spill |-> None, chat |-> chat_messages]

SidebarAssign_KeepSpill(new_zone_id) ==
    [zone |-> new_zone_id, spill |-> selected_spill_id, chat |-> <<>>]

\* Lines 349-351: the three assignments of the dropdown handler.
SidebarAssign(new_zone_id) ==
    [zone |-> new_zone_id, spill |-> None, chat |-> <<>>]

----------------------------------------------------------------------------
\* Map click (lines 516-531)

\* Squared distance of a zone's center to the click, in (0.005 degree)^2.
Dist2(zone, clat, clon) ==
    (zone.lat - clat) * (zone.lat - clat) + (zone.lon - clon) * (zone.lon - clon)

\* d < min_dist, with min_dist = inf while no zone has been seen.
Nearer(d, acc) ==
    acc.closest = None \/ d < acc.min_dist

\* The loop over DANGER_ZONES["zones"] from position i on.
RECURSIVE ClosestFrom(_, _, _, _)
ClosestFrom(i, clat, clon, acc) ==
    IF i > Len(DANGER_ZONES) THEN acc
    ELSE LET zone == DANGER_ZONES[i]
             d == Dist2(zone, clat, clon)
         IN  IF Nearer(d, acc)
             THEN ClosestFrom(i + 1, clat, clon,
                              [closest |-> zone.zone_id, min_dist |-> d])
             ELSE ClosestFrom(i + 1, clat, clon, acc)

Closest(click) ==
    ClosestFrom(1, click.lat, click.lng, [closest |-> None, min_dist |-> 0])

\* Variant of the threshold test: a click at exactly 0.2 counts as a hit.
ClickHit_Inclusive(acc) ==
    acc.closest # None /\ acc.min_dist <= 40 * 40

\* closest and min_dist < 0.2, 0.2 degree being 40 units.
ClickHit(acc) ==
    acc.closest # None /\ acc.min_dist < 40 * 40

\* Lines 528-530: the three assignments of the click handler.
ClickAssign(closest) ==
    [zone |-> closest, spill |-> None, chat |-> <<>>]

----------------------------------------------------------------------------
\* Spill selectboxes (lines 543-565 and 617-637)

\* Variant of the default: the selection is kept as it is.
DefaultSpill_Keep(current, spill_ids) ==
    current

\* if selected_spill_id not in spill_ids: selected_spill_id = spill_ids[0]
DefaultSpill(current, spill_ids) ==
    IF current \notin Range(spill_ids) THEN spill_ids[1] ELSE current

\* Variant of the selectbox: it offers the spills of every zone.
SelectboxValues_AllZones(spill_ids) ==
    AllSpillIds

\* The values a spill selectbox can return: one of the options it shows.
SelectboxValues(spill_ids) ==
    Range(spill_ids)

\* spill_ids.index(selected_spill_id) raises ValueError for an id that is
\* not in the list; the run then ends with the exception.
IndexRaises(spill_ids, sid) ==
    sid \notin Range(spill_ids)

\* The two spill selectboxes of the page.
SpillWidgets == {"cleanup", "assistant"}

\* st.selectbox(..., options=spill_ids, index=default_idx): the option the
\* user changed this widget to, else the option at default_idx.
SelectboxReturn(widget, pick, spill_ids, default) ==
    IF pick # <<>> /\ pick[1] = widget /\ pick[2] \in SelectboxValues(spill_ids)
    THEN pick[2]
    ELSE spill_ids[CHOOSE i \in 1..Len(spill_ids) :
                       /\ spill_ids[i] = default
                       /\ \A j \in 1..(i - 1) : spill_ids[j] # default]

----------------------------------------------------------------------------
\* Cleanup button (lines 567-593)

\* disabled = current_status == "done"; a disabled button is never pressed.
ButtonPressed(clicked, current_status) ==
    clicked /\ current_status # "done"

\* Variants of the button handler: one press takes an idle spill straight to
\* done; a press on a cleaning spill is ignored.
ButtonStatus_Skip(current_status) ==
    IF current_status = "idle" THEN "done"
    ELSE IF current_status = "cleaning" THEN "done"
    ELSE current_status

ButtonStatus_Sticky(current_status) ==
    IF current_status = "idle" THEN "cleaning" ELSE current_status

\* The branches of the button handler on current_status.
ButtonStatus(current_status) ==
    IF current_status = "idle" THEN "cleaning"
    ELSE IF current_status = "cleaning" THEN "done"
    ELSE current_status

----------------------------------------------------------------------------
\* Assistant gateway (lines 187-252) and chat input (lines 664-670)

Questions == {"q1", "q2"}

\* What the service call can do: return a completion with text, raise (a
\* network or API error), or return a response whose choices[0].message
\* cannot be read (the access raises inside the try block).
Upstream ==
    { [kind |-> "text", content |-> "analysis"],
      [kind |-> "api_error", content |-> None],
      [kind |-> "malformed", content |-> None] }

NoKeyMessage == "LLM API key not configured"
ErrorMessage(up) == "Error calling LLM API: " \o up.kind

\* Variant of get_ai_response: the except clause catches API errors only, so
\* the error of reading a malformed response leaves the function.
get_ai_response_Uncaught(cl, up) ==
    IF cl = None THEN [raised |-> FALSE, value |-> NoKeyMessage]
    ELSE IF up.kind = "text" THEN [raised |-> FALSE, value |-> up.content]
    ELSE IF up.kind = "api_error" THEN [raised |-> FALSE, value |-> ErrorMessage(up)]
    ELSE [raised |-> TRUE, value |-> None]

\* get_ai_response: a returned string, or an exception leaving the function.
get_ai_response(cl, up) ==
    IF cl = None THEN [raised |-> FALSE, value |-> NoKeyMessage]
    ELSE IF up.kind = "text" THEN [raised |-> FALSE, value |-> up.content]
    ELSE [raised |-> FALSE, value |-> ErrorMessage(up)]

\* Variants of the chat handler: a fallback answer is not recorded; the
\* transcript is replaced by the new turn instead of being appended to.
ChatTurn_SkipFallback(chat, q, answer) ==
    IF answer.raised \/ answer.value = NoKeyMessage
    THEN Append(chat, [role |-> "user", content |-> q])
    ELSE Append(Append(chat, [role |-> "user", content |-> q]),
                [role |-> "assistant", content |-> answer.value])

ChatTurn_Replace(chat, q, answer) ==
    << [role |-> "user", content |-> q],
       [role |-> "assistant", content |-> answer.value] >>

\* Lines 667-669: append the question, call the gateway, append the answer.
\* An exception out of the gateway would end the run after the first append.
ChatTurn(chat, q, answer) ==
    IF answer.raised
    THEN Append(chat, [role |-> "user", content |-> q])
    ELSE Append(Append(chat, [role |-> "user", content |-> q]),
                [role |-> "assistant", content |-> answer.value])

----------------------------------------------------------------------------
\* Inputs of the model

\* Click points (lat, lng in units of 0.005 degree): the three markers, the
\* info-box marker of each zone (center + 0.10, + 0.10), a point equally
\* near Z2 and Z3, two points at exactly 0.2 from the nearest center, a point
\* just inside 0.2, a point at 0.25, a point within 0.2 of both Z1 and Z2 and
\* a far point.  The source computes in binary floating point, where a
\* decimal coordinate is the nearest double; these points are ones on which
\* the source's arithmetic and the exact arithmetic of the model agree.
ClickPoints ==
    { [lat |-> 8040, lng |-> 9960],  [lat |-> 8010, lng |-> 9980],
      [lat |-> 7980, lng |-> 10000],
      [lat |-> 8060, lng |-> 9980],  [lat |-> 8030, lng |-> 10000],
      [lat |-> 8000, lng |-> 10020],
      [lat |-> 7995, lng |-> 9990],
      [lat |-> 8004, lng |-> 10032], [lat |-> 8012, lng |-> 10024],
      [lat |-> 8079, lng |-> 9960],
      [lat |-> 8090, lng |-> 9960],
      [lat |-> 8020, lng |-> 9975],
      [lat |-> 8200, lng |-> 10200] }

\* The cleanup controls and the assistant panel are rendered only for a
\* selected zone that has spills (lines 534-538 and 607-616).
PanelsShown ==
    selected_zone_id # None /\ get_spill_geojson(selected_zone_id) # <<>>

\* The history record of a step: what it was, its argument, and what the
\* state was like before it (was the argument the selected zone, was a spill
\* selected, was the transcript non-empty, the status of the selected spill),
\* and for a chat turn the context that was passed to the gateway.
Event(op, arg) ==
    [op |-> op, arg |-> arg, same |-> (arg = selected_zone_id),
     had_spill |-> (selected_spill_id # None),
     had_chat |-> (chat_messages # <<>>),
     st0 |-> StatusGet(cleanup_status, selected_spill_id),
     ctx |-> <<>>]

----------------------------------------------------------------------------
\* The state after the session-state block (lines 295-302) of the first run

Init ==
    /\ selected_zone_id = None
    /\ selected_spill_id = None
    /\ chat_messages = <<>>
    /\ cleanup_status = init_cleanup_status
    /\ client \in {None, "client"}
    /\ pc = "sidebar"
    /\ zone_select = NoPick
    /\ last_object_clicked = {}
    /\ button_clicked = FALSE
    /\ user_query = None
    /\ spill_select = <<>>
    /\ ev = [op |-> "start", arg |-> None, same |-> TRUE, had_spill |-> FALSE,
             had_chat |-> FALSE, st0 |-> "idle", ctx |-> <<>>]

\* st.rerun(): the run is abandoned and the script starts again.  Buttons
\* and the chat input do not carry over; the dropdown shows the selection;
\* the map component either still reports the last click or, re-created for
\* a changed map, reports none.
Rerun ==
    /\ pc' = "sidebar"
    /\ zone_select' = NoPick
    /\ button_clicked' = FALSE
    /\ user_query' = None
    /\ spill_select' = <<>>
    /\ last_object_clicked' \in {last_object_clicked, {}}

\* The end of a run: the page is shown and the script waits.  A click still
\* reported at the end of a run is one that missed (a hit ends the run with
\* st.rerun()); it would miss again in every later run, so it is forgotten.
Finish ==
    /\ pc' = "wait"
    /\ zone_select' = NoPick
    /\ button_clicked' = FALSE
    /\ user_query' = None
    /\ spill_select' = <<>>
    /\ last_object_clicked' = {}

----------------------------------------------------------------------------
\* User interactions, each starting a run of the script

UserSelectZone(option) ==
    /\ pc = "wait"
    /\ zone_select' = option
    /\ pc' = "sidebar"
    /\ ev' = Event("user", option)
    /\ UNCHANGED <<session, client, last_object_clicked, button_clicked, user_query,
                   spill_select>>

UserMapClick(point) ==
    /\ pc = "wait"
    /\ last_object_clicked' = {point}
    /\ pc' = "sidebar"
    /\ ev' = Event("user", "click")
    /\ UNCHANGED <<session, client, zone_select, button_clicked, user_query,
                   spill_select>>

UserSelectSpill(widget, sid) ==
    /\ pc = "wait"
    /\ PanelsShown
    /\ sid \in SelectboxValues(get_spill_geojson(selected_zone_id))
    /\ spill_select' = <<widget, sid>>
    /\ pc' = "sidebar"
    /\ ev' = Event("user", "spill")
    /\ UNCHANGED <<session, client, zone_select, last_object_clicked,
                   button_clicked, user_query>>

UserPressCleanup ==
    /\ pc = "wait"
    /\ PanelsShown
    /\ button_clicked' = TRUE
    /\ pc' = "sidebar"
    /\ ev' = Event("user", "button")
    /\ UNCHANGED <<session, client, zone_select, last_object_clicked, user_query,
                   spill_select>>

UserSubmitChat(q) ==
    /\ pc = "wait"
    /\ PanelsShown
    /\ Len(chat_messages) < 2 * MaxTurns
    /\ user_query' = q
    /\ pc' = "sidebar"
    /\ ev' = Event("user", "chat")
    /\ UNCHANGED <<session, client, zone_select, last_object_clicked, button_clicked,
                   spill_select>>

----------------------------------------------------------------------------
\* The script, handler by handler

\* Lines 344-352: the zone dropdown.
SidebarZoneSelect ==
    /\ pc = "sidebar"
    /\ LET new_zone_id == NewZoneId(selected_zone_option)
       IN  IF SidebarChanged(new_zone_id, selected_zone_id)
           THEN /\ selected_zone_id' = SidebarAssign(new_zone_id).zone
                /\ selected_spill_id' = SidebarAssign(new_zone_id).spill
                /\ chat_messages' = SidebarAssign(new_zone_id).chat
                /\ ev' = Event("SelectZone", new_zone_id)
                /\ Rerun
           ELSE /\ pc' = "map"
                /\ ev' = Event("sidebar_same", new_zone_id)
                /\ UNCHANGED <<selected_zone_id, selected_spill_id, chat_messages,
                               zone_select, last_object_clicked, button_clicked,
                               user_query, spill_select>>
    /\ UNCHANGED <<cleanup_status, client>>

\* Lines 516-531: a click reported by the map.
MapClick ==
    /\ pc = "map"
    /\ IF last_object_clicked # {}
       THEN LET acc == Closest(CHOOSE point \in last_object_clicked : TRUE)
            IN  IF ClickHit(acc)
                THEN /\ selected_zone_id' = ClickAssign(acc.closest).zone
                     /\ selected_spill_id' = ClickAssign(acc.closest).spill
                     /\ chat_messages' = ClickAssign(acc.closest).chat
                     /\ ev' = Event("click_hit", acc.closest)
                     /\ Rerun
                ELSE /\ pc' = "cleanup_select"
                     /\ ev' = Event("click_miss", acc.closest)
                     /\ UNCHANGED <<selected_zone_id, selected_spill_id,
                                    chat_messages, zone_select, last_object_clicked,
                                    button_clicked, user_query, spill_select>>
       ELSE /\ pc' = "cleanup_select"
            /\ ev' = Event("no_click", None)
            /\ UNCHANGED <<selected_zone_id, selected_spill_id, chat_messages,
                           zone_select, last_object_clicked, button_clicked,
                           user_query, spill_select>>
    /\ UNCHANGED <<cleanup_status, client>>

\* Lines 534-565: the spill selectbox of the cleanup control.
CleanupSpillSelect ==
    /\ pc = "cleanup_select"
    /\ IF PanelsShown
       THEN LET spill_ids == get_spill_geojson(selected_zone_id)
                default == DefaultSpill(selected_spill_id, spill_ids)
            IN  IF IndexRaises(spill_ids, default)
                THEN /\ selected_spill_id' = default
                     /\ ev' = Event("ValueError", default)
                     /\ Finish
                ELSE /\ selected_spill_id' =
                            SelectboxReturn("cleanup", spill_select, spill_ids, default)
                     /\ ev' = Event("SelectSpill", default)
                     /\ pc' = "cleanup_button"
                     /\ UNCHANGED <<zone_select, last_object_clicked,
                                    button_clicked, user_query, spill_select>>
       ELSE /\ pc' = "assistant"
            /\ ev' = Event("no_cleanup", None)
            /\ UNCHANGED <<selected_spill_id, zone_select, last_object_clicked,
                           button_clicked, user_query, spill_select>>
    /\ UNCHANGED <<selected_zone_id, chat_messages, cleanup_status, client>>

\* Lines 567-593: the cleanup button.
CleanupButton ==
    /\ pc = "cleanup_button"
    /\ LET current_status == StatusGet(cleanup_status, selected_spill_id)
       IN  IF ButtonPressed(button_clicked, current_status)
           THEN /\ cleanup_status' =
                       IF ButtonStatus(current_status) # current_status
                       THEN [sid \in DOMAIN cleanup_status \cup {selected_spill_id} |->
                                 IF sid = selected_spill_id
                                 THEN ButtonStatus(current_status)
                                 ELSE cleanup_status[sid]]
                       ELSE cleanup_status
                /\ ev' = Event("button", selected_spill_id)
                /\ Rerun
           ELSE /\ pc' = "assistant"
                /\ ev' = Event(IF button_clicked THEN "button_disabled" ELSE "no_button",
                               selected_spill_id)
                /\ UNCHANGED <<cleanup_status, zone_select, last_object_clicked,
                               button_clicked, user_query, spill_select>>
    /\ UNCHANGED <<selected_zone_id, selected_spill_id, chat_messages, client>>

\* Lines 607-637: the spill selectbox of the assistant panel; without a zone
\* (or without spills) the run ends here.
AssistantSpillSelect ==
    /\ pc = "assistant"
    /\ IF PanelsShown
       THEN LET spill_ids == get_spill_geojson(selected_zone_id)
                default == DefaultSpill(selected_spill_id, spill_ids)
            IN  IF IndexRaises(spill_ids, default)
                THEN /\ selected_spill_id' = default
                     /\ ev' = Event("ValueError", default)
                     /\ Finish
                ELSE /\ selected_spill_id' =
                            SelectboxReturn("assistant", spill_select, spill_ids, default)
                     /\ ev' = Event("SelectSpill", default)
                     /\ pc' = "chat"
                     /\ UNCHANGED <<zone_select, last_object_clicked,
                                    button_clicked, user_query, spill_select>>
       ELSE /\ ev' = Event("no_assistant", None)
            /\ UNCHANGED selected_spill_id
            /\ Finish
    /\ UNCHANGED <<selected_zone_id, chat_messages, cleanup_status, client>>

\* Lines 664-670: the chat input.
ChatInput ==
    /\ pc = "chat"
    /\ IF user_query # None
       THEN \E up \in Upstream :
                LET ai_answer == get_ai_response(client, up)
                IN  /\ chat_messages' = ChatTurn(chat_messages, user_query, ai_answer)
                    /\ ev' = [Event("chat", user_query) EXCEPT !.ctx =
                                <<BuildContext(selected_zone_id, selected_spill_id)>>]
                    /\ IF ai_answer.raised THEN Finish ELSE Rerun
       ELSE /\ ev' = Event("no_chat", None)
            /\ UNCHANGED chat_messages
            /\ Finish
    /\ UNCHANGED <<selected_zone_id, selected_spill_id, cleanup_status, client>>

Next ==
    \/ \E option \in Range(zone_options) : UserSelectZone(option)
    \/ \E point \in ClickPoints : UserMapClick(point)
    \/ \E widget \in SpillWidgets, sid \in AllSpillIds : UserSelectSpill(widget, sid)
    \/ UserPressCleanup
    \/ \E q \in Questions : UserSubmitChat(q)
    \/ SidebarZoneSelect
    \/ MapClick
    \/ CleanupSpillSelect
    \/ CleanupButton
    \/ AssistantSpillSelect
    \/ ChatInput

Spec == Init /\ [][Next]_vars

----------------------------------------------------------------------------
\* Properties

\* The effect of a zone selection z: zone z, no spill, empty transcript.
ZoneSelected(z) ==
    /\ selected_zone_id' = z
    /\ selected_spill_id' = None
    /\ chat_messages' = <<>>

\* The map handler is about to act on a click that is a hit.
AtClickHit ==
    /\ pc = "map"
    /\ last_object_clicked # {}
    /\ ClickHit(Closest(CHOOSE point \in last_object_clicked : TRUE))

ClickedZone ==
    Closest(CHOOSE point \in last_object_clicked : TRUE).closest

\* C1 as stated: every zone selection z, from the dropdown (also when z is
\* the zone already selected) or from a map-click hit, sets the selected zone
\* to z, resets the selected spill to none and empties the transcript.
C1_SelectZoneAlwaysResets ==
    [][ /\ (pc = "sidebar" /\ zone_select # NoPick) => ZoneSelected(NewZoneId(zone_select))
        /\ AtClickHit => ZoneSelected(ClickedZone) ]_vars

\* C1 amended: a map-click hit on zone z always, and the dropdown when its
\* value z differs from the selected zone, set the selected zone to z, reset
\* the selected spill to none and empty the transcript; a dropdown value equal
\* to the selected zone leaves zone, spill and transcript as they are.
C1_SelectZoneResets ==
    [][ /\ (pc = "sidebar" /\ NewZoneId(selected_zone_option) # selected_zone_id)
              => ZoneSelected(NewZoneId(selected_zone_option))
        /\ (pc = "sidebar" /\ NewZoneId(selected_zone_option) = selected_zone_id)
              => UNCHANGED session
        /\ AtClickHit => ZoneSelected(ClickedZone) ]_vars

\* A map click has hit the zone that was already selected, with a spill
\* selected and a transcript, and has reset both.
C1_Witness ==
    /\ ev.op = "click_hit" /\ ev.same /\ ev.had_spill /\ ev.had_chat
    /\ selected_zone_id = ev.arg
    /\ selected_spill_id = None
    /\ chat_messages = <<>>

\* C2: in every reachable state, a selected spill id that is set belongs to
\* the spill set of the currently selected zone; it is never set while no
\* zone is selected.
C2_SpillBelongsToZone ==
    selected_spill_id # None =>
        /\ selected_zone_id # None
        /\ selected_spill_id \in Range(get_spill_geojson(selected_zone_id))

\* Zone Z2 and its spill are selected after the spill of Z1, selected
\* earlier, was cleaned, and a chat turn has taken place in Z2.
C2_Witness ==
    /\ selected_zone_id = "Z2"
    /\ selected_spill_id = "S2"
    /\ cleanup_status["S1"] = "done"
    /\ chat_messages # <<>>
    /\ pc = "wait"

\* C3: in every step the cleanup status of every spill stays the same or
\* moves idle -> cleaning or cleaning -> done; it never moves backwards,
\* never skips a step, and a status that is done stays done.
C3_StatusProgression ==
    [][ \A sid \in AllSpillIds :
            LET old == StatusGet(cleanup_status, sid)
                new == StatusGet(cleanup_status', sid)
            IN  /\ \/ new = old
                   \/ old = "idle" /\ new = "cleaning"
                   \/ old = "cleaning" /\ new = "done"
                /\ old = "done" => new = "done" ]_vars

\* The cleanup button was pressed for a spill that is done, and the spill
\* is still done.
C3_Witness ==
    /\ ev.op = "button_disabled"
    /\ ev.st0 = "done"
    /\ cleanup_status[ev.arg] = "done"

\* C4 as stated: the press of the cleanup button on a spill whose status is
\* cleaning or done leaves the status unchanged.
C4_SecondDispatchIsNoOp ==
    [][ (/\ pc = "cleanup_button"
         /\ button_clicked
         /\ StatusGet(cleanup_status, selected_spill_id) # "idle")
            => cleanup_status' = cleanup_status ]_vars

\* C4 amended: the press of the cleanup button moves the selected spill from
\* idle to cleaning and from cleaning to done, and changes nothing when the
\* spill is done; without a press the status is unchanged.  Two presses on
\* an idle spill leave it done.
C4_ButtonSteps ==
    [][ pc = "cleanup_button" =>
            LET old == StatusGet(cleanup_status, selected_spill_id)
                new == StatusGet(cleanup_status', selected_spill_id)
            IN  /\ (button_clicked /\ old = "idle") => new = "cleaning"
                /\ (button_clicked /\ old = "cleaning") => new = "done"
                /\ (~button_clicked \/ old = "done") =>
                        cleanup_status' = cleanup_status ]_vars

\* The button was pressed for a spill that was cleaning, and the spill is
\* now done.
C4_Witness ==
    /\ ev.op = "button"
    /\ ev.st0 = "cleaning"
    /\ cleanup_status[ev.arg] = "done"

\* The transcript is a sequence of pairs: a user entry, then an assistant entry.
Paired(chat) ==
    /\ Len(chat) % 2 = 0
    /\ \A i \in 1..Len(chat) :
            chat[i].role = (IF i % 2 = 1 THEN "user" ELSE "assistant")

\* C5: every chat turn appends exactly two entries, a user entry holding the
\* question followed by an assistant entry, whatever the gateway's outcome;
\* so in every reachable state the transcript has even length and alternates
\* user, assistant starting with user.
C5_ChatTurnsPaired ==
    /\ []Paired(chat_messages)
    /\ [][ (pc = "chat" /\ user_query # None) =>
              /\ Len(chat_messages') = Len(chat_messages) + 2
              /\ SubSeq(chat_messages', 1, Len(chat_messages)) = chat_messages
              /\ chat_messages'[Len(chat_messages) + 1] =
                    [role |-> "user", content |-> user_query]
              /\ chat_messages'[Len(chat_messages) + 2].role = "assistant" ]_vars

\* Two turns have taken place without a credential: both got an answer.
C5_Witness ==
    /\ client = None
    /\ Len(chat_messages) = 4
    /\ chat_messages[4] = [role |-> "assistant", content |-> NoKeyMessage]
    /\ chat_messages[1].content # chat_messages[3].content

\* C6: for every click point, the click selects the zone whose center is
\* nearest (the first such zone in the order Z1, Z2, Z3 when several are
\* equally near) if that distance is < 0.2, and changes neither the selected
\* zone, nor the selected spill, nor the transcript when every zone is at
\* distance >= 0.2, also at exactly 0.2.
C6_ClickResolution ==
    [][ (pc = "map" /\ last_object_clicked # {}) =>
            LET point == CHOOSE c \in last_object_clicked : TRUE
                D(i) == Dist2(DANGER_ZONES[i], point.lat, point.lng)
                Zs == 1..Len(DANGER_ZONES)
                best == CHOOSE i \in Zs :
                            /\ \A j \in Zs : D(i) <= D(j)
                            /\ \A j \in Zs : j < i => D(j) > D(i)
            IN  IF D(best) < 1600
                THEN ZoneSelected(DANGER_ZONES[best].zone_id)
                ELSE UNCHANGED <<selected_zone_id, selected_spill_id,
                                 chat_messages>> ]_vars

\* A click at exactly 0.2 from the center of Z3 (0.12 north, 0.16 east), the
\* nearest zone, was handled while Z2 was selected with a transcript: it
\* missed and nothing changed.
C6_Witness ==
    /\ ev.op = "click_miss"
    /\ last_object_clicked = {[lat |-> 8004, lng |-> 10032]}
    /\ ev.arg = "Z3"
    /\ selected_zone_id = "Z2"
    /\ selected_spill_id = "S2"
    /\ chat_messages # <<>>

\* The strings the gateway returns: the fallback for a missing credential,
\* the fallback describing a failure, or the service's text.
GatewayStrings(cl) ==
    IF cl = None THEN {NoKeyMessage}
    ELSE {up.content : up \in {u \in Upstream : u.kind = "text"}}
         \cup {ErrorMessage(up) : up \in {u \in Upstream : u.kind # "text"}}

C8_SelectSpill ==
    /\ [](pc \in {"cleanup_select", "assistant"} /\ PanelsShown =>
            \A sid \in Range(get_spill_geojson(selected_zone_id)) :
                ENABLED (Next /\ selected_spill_id' = sid))
    /\ [][ (pc \in {"cleanup_select", "assistant"}) =>
            (IF selected_zone_id # None
             THEN /\ selected_spill_id' \in Range(get_spill_geojson(selected_zone_id))
                  /\ UNCHANGED <<selected_zone_id, chat_messages, cleanup_status>>
             ELSE UNCHANGED session) ]_vars

\* The spill of Z3 was selected in zone Z3, after the spill of another zone
\* had been selected and sent for cleanup.
C8_Witness ==
    /\ ev.op = "SelectSpill"
    /\ selected_zone_id = "Z3"
    /\ selected_spill_id = "S3"
    /\ cleanup_status["S1"] = "cleaning"
    /\ cleanup_status["S3"] = "idle"

IsPrefix(a, b) ==
    Len(a) <= Len(b) /\ SubSeq(b, 1, Len(a)) = a

\* C9: the transcript is emptied only by a zone selection (the dropdown
\* changing the zone, or a map-click hit); spill selection and the cleanup
\* button leave it unchanged, and a chat turn only appends to it.
C9_TranscriptFrame ==
    [][ /\ (chat_messages # <<>> /\ chat_messages' = <<>>) =>
              \/ pc = "sidebar" /\ NewZoneId(selected_zone_option) # selected_zone_id
              \/ AtClickHit
        /\ pc \in {"sidebar", "map"} => chat_messages' \in {chat_messages, <<>>}
        /\ pc \in {"wait", "cleanup_select", "cleanup_button", "assistant"} =>
              chat_messages' = chat_messages
        /\ pc = "chat" => IsPrefix(chat_messages, chat_messages') ]_vars

\* A second chat turn was appended after a cleanup device had been sent to
\* the selected spill: the first turn is still in the transcript.
C9_Witness ==
    /\ ev.op = "chat"
    /\ ev.had_chat
    /\ ev.st0 = "cleaning"
    /\ Len(chat_messages) = 4

\* C10: cleanup_status has an entry for exactly every spill of every zone,
\* all idle at the start; it is changed only by the cleanup button, which
\* changes only the entry of the selected spill; zone selection, map clicks,
\* spill selection and chat turns leave every status unchanged.
C10_StatusFrame ==
    /\ cleanup_status = [sid \in AllSpillIds |-> "idle"]
    /\ [](DOMAIN cleanup_status = AllSpillIds)
    /\ [][ cleanup_status' # cleanup_status =>
              /\ pc = "cleanup_button"
              /\ button_clicked
              /\ \A sid \in AllSpillIds \ {selected_spill_id} :
                    StatusGet(cleanup_status', sid) = StatusGet(cleanup_status, sid) ]_vars

\* Zone Z1 was selected again from the dropdown after Z2 had been visited
\* and its spill cleaned: the status of Z1's spill is still cleaning.
C10_Witness ==
    /\ ev.op = "SelectZone"
    /\ selected_zone_id = "Z1"
    /\ cleanup_status["S1"] = "cleaning"
    /\ cleanup_status["S2"] = "done"

\* C11: a chat turn takes place only in a state in which a zone and a spill
\* are selected, and the context passed to the gateway is the selected zone,
\* a spill that belongs to that zone, and that zone's history summary; the
\* chat input is offered only for a selected zone with spills, and from a
\* state without such a zone no step changes the transcript.
C11_ChatContext ==
    [][ /\ Len(chat_messages') > Len(chat_messages) =>
              /\ selected_zone_id # None
              /\ selected_spill_id # None
              /\ Len(ev'.ctx) = 1
              /\ ev'.ctx[1].zone_meta.zone_id = selected_zone_id
              /\ ev'.ctx[1].zone_meta \in Range(DANGER_ZONES)
              /\ ev'.ctx[1].spill_props = selected_spill_id
              /\ ev'.ctx[1].spill_props \in
                    Range(get_spill_geojson(ev'.ctx[1].zone_meta.zone_id))
              /\ ev'.ctx[1].history_text =
                    get_history_summary(selected_zone_id)
        /\ (user_query' # None /\ user_query = None) => PanelsShown
        /\ ~PanelsShown => chat_messages' = chat_messages ]_vars

\* A chat turn took place in zone Z3 after one in another zone: the gateway
\* got zone Z3, spill S3 and the two events of Z3's history.
C11_Witness ==
    /\ ev.op = "chat"
    /\ selected_zone_id = "Z3"
    /\ Len(ev.ctx) = 1
    /\ ev.ctx[1].zone_meta.zone_id = "Z3"
    /\ ev.ctx[1].spill_props = "S3"
    /\ ev.ctx[1].history_text.values[1] = 2
    /\ cleanup_status["S1"] = "done"

\* The sum of the areas of the events at the positions in S.
RECURSIVE AreaOver(_, _)
AreaOver(events, S) ==
    IF S = {} THEN 0
    ELSE LET i == CHOOSE j \in S : TRUE
         IN  events[i].area_km2 + AreaOver(events, S \ {i})

\* What the summary of a list of events has to be: the no-history sentence
\* for no events, else the number of events, the sum of their areas, the
\* greatest area, and the date and area of the event with the greatest date.
ExpectedSummary(events) ==
    IF events = <<>>
    THEN [sentence |-> NoHistorySentence, values |-> <<>>]
    ELSE LET newest == CHOOSE e \in Range(events) :
                            \A f \in Range(events) : f.date <= e.date
             largest == CHOOSE e \in Range(events) :
                            \A f \in Range(events) : f.area_km2 <= e.area_km2
         IN  [sentence |-> HistorySentence,
              values |-> << Len(events), AreaOver(events, DOMAIN events),
                            largest.area_km2, newest.date, newest.area_km2 >>]

\* C12: the history summary is a function of the zone id and the static
\* table alone: the no-history sentence for a zone without events, else the
\* number of events, the sum of their areas, the greatest area, and the date
\* and area of the event with the greatest date, in that order (for Z1: 3
\* events, total 5.1, max 2.2, latest 2024-01-03 with area 1.1); this is the
\* summary every chat turn passes on, and computing it changes no state.
C12_HistorySummary ==
    /\ [](\A zone_id \in ZoneIds \cup {"Z4", None} :
             get_history_summary(zone_id) = ExpectedSummary(HistoryGet(zone_id)))
    /\ [](get_history_summary("Z1").values = <<3, 51, 22, 20240103, 11>>)
    /\ [](get_history_summary("Z4").sentence = NoHistorySentence)
    /\ [][ ev'.ctx # <<>> =>
              /\ ev'.ctx[1].history_text = ExpectedSummary(HistoryGet(selected_zone_id))
              /\ ev'.ctx[1].history_text.sentence = HistorySentence
              /\ UNCHANGED <<selected_zone_id, selected_spill_id, cleanup_status>> ]_vars

\* A chat turn in zone Z1 passed on the summary of Z1's three events.
C12_Witness ==
    /\ ev.op = "chat"
    /\ selected_zone_id = "Z1"
    /\ Len(ev.ctx) = 1
    /\ ev.ctx[1].history_text.values = <<3, 51, 22, 20240103, 11>>

\* C13: whenever a script run has completed and the page waits for the next
\* interaction with a zone that has spills selected, the selected spill is
\* set to a spill of that zone; the cleanup button and the chat input only
\* ever run with such a spill.  A change of zone leaves the spill unset but
\* starts the script again at once, and from there the spill stays unset
\* without the page coming to rest until a selectbox sets it to the first
\* spill of the new zone.
C13_SpillSetWhenQuiescent ==
    /\ [](pc \in {"wait", "cleanup_button", "chat"} /\ PanelsShown =>
            /\ selected_spill_id # None
            /\ selected_spill_id \in Range(get_spill_geojson(selected_zone_id)))
    /\ [][ /\ selected_zone_id' # selected_zone_id =>
                 /\ selected_spill_id' = None
                 /\ pc' = "sidebar"
                 /\ spill_select' = <<>>
           /\ (PanelsShown /\ selected_spill_id = None) =>
                 \/ selected_spill_id' = None /\ pc' # "wait"
                 \/ /\ pc = "cleanup_select"
                    /\ selected_spill_id' = get_spill_geojson(selected_zone_id)[1]
                    /\ UNCHANGED selected_zone_id ]_vars

\* The page rests with zone Z2 and its first spill selected, after zone Z1
\* had been selected (its spill was sent for cleanup) and the zone changed.
C13_Witness ==
    /\ pc = "wait"
    /\ selected_zone_id = "Z2"
    /\ selected_spill_id = get_spill_geojson("Z2")[1]
    /\ cleanup_status["S1"] = "cleaning"
    /\ cleanup_status["S2"] = "idle"

====
